---- MODULE Spec2Model ----
(***************************************************************************)
(* Model of the two generation services of taskflow-backend:               *)
(*   PRDGeneratorService.generate_prd      (app/services/prd_generator.py) *)
(*   RepoContentGenerator.generate_content                                 *)
(*                  (AI_Research/github_setup/repo_content_generator.py)   *)
(*                                                                         *)
(* A text is a sequence of characters.  A character is a one-element       *)
(* string, except that the words "json" and "markdown" and a complete JSON *)
(* document are each one unit of the sequence: a regular expression either *)
(* matches such a word whole or treats it as ordinary characters, and      *)
(* json.loads either reads a whole document or fails.                      *)
(***************************************************************************)
EXTENDS Integers, Sequences, FiniteSets, TLC

VARIABLES
    flow,         \* the method being called: "none", "prd" (generate_prd), "repo" (generate_content)
    pc,           \* the position of the call in the method's code
    args,         \* the call's arguments
    request,      \* what is handed to the agent: prompt, user_id, session_id
    response,     \* what the agent gave back: a response object, None, or an exception
    extracted,    \* the local prd_content (generate_prd) or json_content (generate_content)
    content_dict, \* the local content_dict of generate_content
    exc,          \* the exception caught by the method's except clause
    memory,       \* the records of the memory store, oldest first
    result,       \* what the call gave its caller: nothing yet, a returned value, a raised exception
    modelCalls,   \* how often the call has invoked agent.arun / agent.run
    memWrites,    \* how often the call has invoked memory.add_user_memory
    ex_pc,        \* extraction harness: "off", "input", "applied", "reapplied"
    ex_fn,        \* which extractor the harness applies: "json", "prd" or "none"
    ex_text,      \* the text given to the extractor
    ex_out,       \* the extractor's result on ex_text
    ex_out2       \* the extractor's result on ex_out

flowVars == <<flow, pc, args, request, response, extracted, content_dict, exc, memory, result,
              modelCalls, memWrites>>
exVars == <<ex_pc, ex_fn, ex_text, ex_out, ex_out2>>
vars == <<flow, pc, args, request, response, extracted, content_dict, exc, memory, result,
          modelCalls, memWrites, ex_pc, ex_fn, ex_text, ex_out, ex_out2>>

----------------------------------------------------------------------------
(* Bounds *)

\* longest extractor input, counted in units (a fence is one unit)
MaxLen == 5

\* longest text the model answers generate_prd with, in units
MaxPrdLen == 4

\* longest text the model answers generate_content with, in units
MaxRepoLen == 4

----------------------------------------------------------------------------
(* Texts *)

\* the backtick character (a string of the module cannot hold one)
Backtick == "BACKTICK"

Fence == <<Backtick, Backtick, Backtick>>

Whitespace == {" ", "\n"}

IsSpace(c) == c \in Whitespace

\* all sequences over S of length at most n
RECURSIVE SeqsUpTo(_, _)
SeqsUpTo(S, n) ==
    IF n = 0 THEN {<<>>}
    ELSE LET shorter == SeqsUpTo(S, n - 1)
         IN  shorter \cup {Append(s, t) : s \in {x \in shorter : Len(x) = n - 1}, t \in S}

\* the text spelled by a sequence of units, each unit a sequence of characters
RECURSIVE Flatten(_)
Flatten(us) == IF us = <<>> THEN <<>> ELSE Head(us) \o Flatten(Tail(us))

ExtractUnits == {Fence, <<"json">>, <<"markdown">>, <<"x">>, <<" ">>, <<"\n">>}

ExtractTexts == {Flatten(us) : us \in SeqsUpTo(ExtractUnits, MaxLen)}

----------------------------------------------------------------------------
(* str.strip() *)

Min(S) == CHOOSE m \in S : \A n \in S : m <= n

Max(S) == CHOOSE m \in S : \A n \in S : m >= n

\* the text from its first to its last character that is no white space
Strip(s) ==
    LET black == {i \in 1..Len(s) : ~IsSpace(s[i])}
    IN  IF black = {} THEN <<>> ELSE SubSeq(s, Min(black), Max(black))

----------------------------------------------------------------------------
(* The two regular expressions: what Python's matcher finds                *)

IsFenceAt(s, i) ==
    i >= 1 /\ i + 2 <= Len(s) /\ s[i] = Backtick /\ s[i + 1] = Backtick /\ s[i + 2] = Backtick

NoMatch == [found |-> FALSE, start |-> 0, gstart |-> 0, gend |-> 0, end |-> 0]

\* match.group(1)
Group1(s, m) == SubSeq(s, m.gstart, m.gend)

\* ([\s\S]*?)``` : the lazy group grows from q one character at a time and
\* stops at the first position where a closing fence starts; 0 when there
\* is none
LazyToFence(s, q) ==
    LET closing == {c \in q..(Len(s) - 2) : IsFenceAt(s, c)}
    IN  IF closing = {} THEN 0 ELSE Min(closing)

\* the rest of the pattern once the opening fence at p and the tag are
\* consumed and the group starts at q
JsonMatchFrom(s, p, q) ==
    LET c == LazyToFence(s, q)
    IN  IF c = 0 THEN NoMatch
        ELSE [found |-> TRUE, start |-> p, gstart |-> q, gend |-> c - 1, end |-> c + 3]

\* ```(?:json)?([\s\S]*?)``` anchored at p: the optional tag is tried first,
\* and given up when the rest does not match
JsonMatchAt(s, p) ==
    IF ~IsFenceAt(s, p) THEN NoMatch
    ELSE LET tagged == IF p + 3 <= Len(s) /\ s[p + 3] = "json"
                       THEN JsonMatchFrom(s, p, p + 4)
                       ELSE NoMatch
         IN  IF tagged.found THEN tagged ELSE JsonMatchFrom(s, p, p + 3)

\* the leftmost match starting at or after pos
JsonSearch(s, pos) ==
    LET starts == {p \in pos..Len(s) : JsonMatchAt(s, p).found}
    IN  IF starts = {} THEN NoMatch ELSE JsonMatchAt(s, Min(starts))

\* list(re.finditer(...)): the non-overlapping matches, left to right, each
\* search starting where the match before it ended
RECURSIVE FindIter(_, _)
FindIter(s, pos) ==
    LET m == JsonSearch(s, pos)
    IN  IF m.found THEN <<m>> \o FindIter(s, m.end) ELSE <<>>

\* \s*$ under re.MULTILINE, tried at position e: \s* takes white space up to
\* some position k, where $ holds: at the end of the text or before a newline
TrailOk(s, e) ==
    \E k \in e..(Len(s) + 1) :
        /\ \A i \in e..(k - 1) : IsSpace(s[i])
        /\ (k > Len(s) \/ s[k] = "\n")

\* ([\s\S]*?)```\s*$ : the lazy group stops at the first position where a
\* closing fence starts that \s*$ can follow
LazyToAnchoredFence(s, q) ==
    LET closing == {c \in q..(Len(s) - 2) : IsFenceAt(s, c) /\ TrailOk(s, c + 3)}
    IN  IF closing = {} THEN 0 ELSE Min(closing)

PrdMatchFrom(s, p, q) ==
    LET c == LazyToAnchoredFence(s, q)
    IN  IF c = 0 THEN NoMatch
        ELSE [found |-> TRUE, start |-> p, gstart |-> q, gend |-> c - 1, end |-> c + 3]

\* ```(?:markdown)?([\s\S]*?)```\s*$ anchored at p
PrdMatchAt(s, p) ==
    IF ~IsFenceAt(s, p) THEN NoMatch
    ELSE LET tagged == IF p + 3 <= Len(s) /\ s[p + 3] = "markdown"
                       THEN PrdMatchFrom(s, p, p + 4)
                       ELSE NoMatch
         IN  IF tagged.found THEN tagged ELSE PrdMatchFrom(s, p, p + 3)

\* re.search: the leftmost match
PrdSearch(s, pos) ==
    LET starts == {p \in pos..Len(s) : PrdMatchAt(s, p).found}
    IN  IF starts = {} THEN NoMatch ELSE PrdMatchAt(s, Min(starts))

----------------------------------------------------------------------------
(* The extractors *)

\* extract_json_from_response taking the first match, not the last
extract_json_first_match(response_content) ==
    LET json_matches == FindIter(response_content, 1)
    IN  IF json_matches # <<>>
        THEN Strip(Group1(response_content, json_matches[1]))
        ELSE Strip(response_content)

\* extract_json_from_response returning a text without a match as it came
extract_json_no_strip(response_content) ==
    LET json_matches == FindIter(response_content, 1)
    IN  IF json_matches # <<>>
        THEN Strip(Group1(response_content, json_matches[Len(json_matches)]))
        ELSE response_content

\* RepoContentGenerator.extract_json_from_response
extract_json_from_response(response_content) ==
    LET json_matches == FindIter(response_content, 1)
    IN  IF json_matches # <<>>
        THEN Strip(Group1(response_content, json_matches[Len(json_matches)]))
        ELSE Strip(response_content)

\* generate_prd, from the response's content to the PRD text
PrdExtract(content) ==
    LET prd_content == Strip(content)
        match == PrdSearch(prd_content, 1)
    IN  IF match.found THEN Strip(Group1(prd_content, match)) ELSE prd_content

----------------------------------------------------------------------------
(* JSON documents and the RepositoryContent schema *)

\* the length the description field's documentation allows
MaxDescription == 160

\* a string of n characters
Str(n) == [i \in 1..n |-> "a"]

\* a field of a JSON object: a string, a number, or not there
FieldStr(s) == [t |-> "str", s |-> s]
FieldNumber == [t |-> "number", s |-> <<>>]
FieldAbsent == [t |-> "absent", s |-> <<>>]

\* the JSON documents a response may hold, each one unit of the text
JsonDocs ==
    {"{d1,r1}", "{d160,r1}", "{d161,r1}", "{d0,r1}", "{d1,r0}",
     "{d1}", "{r1}", "{d#,r1}", "[]"}

Object(d, r) == [kind |-> "object", description |-> d, readme_content |-> r]

NoValue == [kind |-> "none", description |-> FieldAbsent, readme_content |-> FieldAbsent]

\* what json.loads makes of each document
DocValue(doc) ==
    CASE doc = "{d1,r1}"   -> Object(FieldStr(Str(1)), FieldStr(Str(1)))
      [] doc = "{d160,r1}" -> Object(FieldStr(Str(MaxDescription)), FieldStr(Str(1)))
      [] doc = "{d161,r1}" -> Object(FieldStr(Str(MaxDescription + 1)), FieldStr(Str(1)))
      [] doc = "{d0,r1}"   -> Object(FieldStr(<<>>), FieldStr(Str(1)))
      [] doc = "{d1,r0}"   -> Object(FieldStr(Str(1)), FieldStr(<<>>))
      [] doc = "{d1}"      -> Object(FieldStr(Str(1)), FieldAbsent)
      [] doc = "{r1}"      -> Object(FieldAbsent, FieldStr(Str(1)))
      [] doc = "{d#,r1}"   -> Object(FieldNumber, FieldStr(Str(1)))
      [] OTHER             -> [kind |-> "array", description |-> FieldAbsent,
                               readme_content |-> FieldAbsent]

NoExc == [type |-> "none", msg |-> <<>>]

\* json.loads: one document, white space around it allowed; anything else
\* is a JSONDecodeError
JsonLoads(s) ==
    LET t == Strip(s)
    IN  IF Len(t) = 1 /\ t[1] \in JsonDocs
        THEN [ok |-> TRUE, value |-> DocValue(t[1]), exc |-> NoExc]
        ELSE [ok |-> FALSE, value |-> NoValue,
              exc |-> [type |-> "JSONDecodeError", msg |-> <<"Expecting value">>]]

\* a RepositoryContent object
RepositoryContent(d, r) == [description |-> d, readme_content |-> r]

NoObject == RepositoryContent(FieldAbsent, FieldAbsent)

\* Validate with readme_content declared optional
Validate_OptionalReadme(value) ==
    IF value.kind # "object"
    THEN [ok |-> FALSE, object |-> NoObject,
          exc |-> [type |-> "TypeError",
                   msg |-> <<"argument after ** must be a mapping">>]]
    ELSE IF value.description.t = "absent"
    THEN [ok |-> FALSE, object |-> NoObject,
          exc |-> [type |-> "ValidationError", msg |-> <<"Field required">>]]
    ELSE IF value.description.t # "str" \/ value.readme_content.t \notin {"str", "absent"}
    THEN [ok |-> FALSE, object |-> NoObject,
          exc |-> [type |-> "ValidationError",
                   msg |-> <<"Input should be a valid string">>]]
    ELSE [ok |-> TRUE, object |-> RepositoryContent(value.description, value.readme_content),
          exc |-> NoExc]

\* Validate with fields that are required but of no declared type
Validate_Untyped(value) ==
    IF value.kind # "object"
    THEN [ok |-> FALSE, object |-> NoObject,
          exc |-> [type |-> "TypeError",
                   msg |-> <<"argument after ** must be a mapping">>]]
    ELSE IF value.description.t = "absent" \/ value.readme_content.t = "absent"
    THEN [ok |-> FALSE, object |-> NoObject,
          exc |-> [type |-> "ValidationError", msg |-> <<"Field required">>]]
    ELSE [ok |-> TRUE, object |-> RepositoryContent(value.description, value.readme_content),
          exc |-> NoExc]

\* RepositoryContent(**content_dict): content_dict must be a mapping, and both
\* fields are required strings; no other constraint is declared on them
Validate(value) ==
    IF value.kind # "object"
    THEN [ok |-> FALSE, object |-> NoObject,
          exc |-> [type |-> "TypeError",
                   msg |-> <<"argument after ** must be a mapping">>]]
    ELSE IF value.description.t = "absent" \/ value.readme_content.t = "absent"
    THEN [ok |-> FALSE, object |-> NoObject,
          exc |-> [type |-> "ValidationError", msg |-> <<"Field required">>]]
    ELSE IF value.description.t # "str" \/ value.readme_content.t # "str"
    THEN [ok |-> FALSE, object |-> NoObject,
          exc |-> [type |-> "ValidationError",
                   msg |-> <<"Input should be a valid string">>]]
    ELSE [ok |-> TRUE, object |-> RepositoryContent(value.description, value.readme_content),
          exc |-> NoExc]

----------------------------------------------------------------------------
(* Inputs and the agent's answers *)

None == "None"

UserIds == {None, "u1"}

ProjectNames == {"Unnamed Project"}

RepoNames == {"repo"}

Documents == {<<"x">>}

\* a whole fenced block tagged markdown, with the given body on its own line
MarkdownBlock(body) == Fence \o <<"markdown", "\n">> \o body \o <<"\n">> \o Fence

\* what the model's answer to generate_prd is made of: single characters,
\* fences, the tag, and whole blocks (a draft "x" and a final "y")
PrdUnits ==
    {Fence, <<"markdown">>, <<"x">>, <<"\n">>,
     MarkdownBlock(<<"x">>), MarkdownBlock(<<"y">>)}

PrdTexts == {Flatten(us) : us \in SeqsUpTo(PrdUnits, MaxPrdLen)}

RepoUnits(doc) == {Fence, <<"json">>, <<"x">>, <<"\n">>, <<doc>>}

RepoTexts ==
    UNION {{Flatten(us) : us \in SeqsUpTo(RepoUnits(doc), MaxRepoLen)} : doc \in JsonDocs}

\* RepositoryContent objects a response may carry as its content
ContentObjects ==
    {RepositoryContent(FieldStr(d), FieldStr(r)) :
        d \in {<<>>, Str(1)}, r \in {<<>>, Str(1)}}

Pending ==
    [kind |-> "pending", present |-> FALSE, ctype |-> "None", text |-> <<>>,
     object |-> NoObject, exc |-> NoExc]

Returned(present, ctype, text, object) ==
    [kind |-> "returned", present |-> present, ctype |-> ctype, text |-> text,
     object |-> object, exc |-> NoExc]

Raised(e) ==
    [kind |-> "raised", present |-> FALSE, ctype |-> "None", text |-> <<>>,
     object |-> NoObject, exc |-> e]

\* what a run of the agent may return: no response, a response without
\* content, with a text, with a RepositoryContent, with something else
RunResponses(texts) ==
    {Returned(FALSE, "None", <<>>, NoObject), Returned(TRUE, "None", <<>>, NoObject),
     Returned(TRUE, "dict", <<>>, NoObject)}
    \cup {Returned(TRUE, "str", t, NoObject) : t \in texts}
    \cup {Returned(TRUE, "RepositoryContent", <<>>, o) : o \in ContentObjects}

\* what agent.arun may return to generate_prd
PrdResponses == RunResponses(PrdTexts)

\* what agent.run may return to generate_content
RepoResponses == RunResponses(RepoTexts)

\* the two extractors on the texts the agent may answer with
PrdExtractOf == [t \in PrdTexts |-> PrdExtract(t)]

ExtractJsonOf == [t \in RepoTexts |-> extract_json_from_response(t)]

\* what a run of the agent may raise
ProviderErrors ==
    {[type |-> "ConnectionError", msg |-> <<"network error">>],
     [type |-> "TimeoutError", msg |-> <<>>]}

\* what memory.add_user_memory may raise
MemoryErrors == {[type |-> "RuntimeError", msg |-> <<"memory store unavailable">>]}

\* bool(response.content)
Truthy(r) ==
    /\ r.present
    /\ r.ctype # "None"
    /\ (r.ctype = "str" => r.text # <<>>)

NoResult ==
    [kind |-> "none",
     dict |-> [status |-> "none", content |-> <<>>, project_name |-> "", error |-> <<>>],
     object |-> NoObject, exc |-> NoExc]

NoArgs == [name |-> "", user_id |-> None, document |-> <<>>]

NoRequest == [prompt |-> <<>>, user_id |-> None, session_id |-> <<>>]

FlowIdle ==
    /\ flow = "none"
    /\ pc = "idle"
    /\ args = NoArgs
    /\ request = NoRequest
    /\ response = Pending
    /\ extracted = <<>>
    /\ content_dict = NoValue
    /\ exc = NoExc
    /\ memory = <<>>
    /\ result = NoResult
    /\ modelCalls = 0
    /\ memWrites = 0

ExtractOff ==
    /\ ex_pc = "off"
    /\ ex_fn = "none"
    /\ ex_text = <<>>
    /\ ex_out = <<>>
    /\ ex_out2 = <<>>

Init == FlowIdle /\ ExtractOff

----------------------------------------------------------------------------
(* PRDGeneratorService.generate_prd *)

\* the prompt handed to agent.arun
PrdPrompt(brd_content) ==
    <<"BRD:", "\n">> \o Fence \o <<"markdown", "\n">> \o brd_content \o <<"\n">> \o Fence

\* the text of the memory record
MemoryText(prd_content) ==
    <<"Project PRD:", "\n">> \o Fence \o <<"markdown", "\n">> \o prd_content
        \o <<"\n">> \o Fence

UserMemory(user_id, prd_content) ==
    [user_id |-> user_id, memory |-> MemoryText(prd_content),
     topics |-> <<"PRD", "Product Requirements Document">>]

\* the call enters the try block and builds the prompt and the ids
PrdCall(brd_content, project_name, user_id) ==
    /\ pc = "idle"
    /\ flow' = "prd"
    /\ pc' = "prd_built"
    /\ args' = [name |-> project_name, user_id |-> user_id, document |-> brd_content]
    /\ request' = [prompt |-> PrdPrompt(brd_content), user_id |-> user_id,
                   session_id |-> IF user_id # None THEN <<user_id, "_prd">> ELSE <<>>]
    /\ UNCHANGED <<response, extracted, content_dict, exc, memory, result,
                   modelCalls, memWrites>>
    /\ UNCHANGED exVars

\* self.agent.arun(...) is invoked
PrdSend ==
    /\ pc = "prd_built"
    /\ pc' = "prd_sent"
    /\ modelCalls' = modelCalls + 1
    /\ UNCHANGED <<flow, args, request, response, extracted, content_dict, exc, memory,
                   result, memWrites>>
    /\ UNCHANGED exVars

\* await: the call is suspended until the agent answers
PrdAwait ==
    /\ pc = "prd_sent"
    /\ pc' = "prd_awaiting"
    /\ UNCHANGED <<flow, args, request, response, extracted, content_dict, exc, memory,
                   result, modelCalls, memWrites>>
    /\ UNCHANGED exVars

\* the agent answers
PrdArunReturns ==
    /\ pc = "prd_awaiting"
    /\ pc' = "prd_responded"
    /\ \E r \in PrdResponses : response' = r
    /\ UNCHANGED <<flow, args, request, extracted, content_dict, exc, memory, result,
                   modelCalls, memWrites>>
    /\ UNCHANGED exVars

\* PrdArunRaises with the exception swallowed around the call: the method
\* goes on with an empty text
PrdArunRaises_Swallowed(e) ==
    /\ pc = "prd_awaiting"
    /\ pc' = "prd_extracted"
    /\ response' = Raised(e)
    /\ extracted' = <<>>
    /\ UNCHANGED <<flow, args, request, content_dict, exc, memory, result,
                   modelCalls, memWrites>>
    /\ UNCHANGED exVars

\* the agent raises: control goes to the except clause
PrdArunRaises(e) ==
    /\ pc = "prd_awaiting"
    /\ pc' = "prd_except"
    /\ response' = Raised(e)
    /\ exc' = e
    /\ UNCHANGED <<flow, args, request, extracted, content_dict, memory, result,
                   modelCalls, memWrites>>
    /\ UNCHANGED exVars

\* prd_response.content.strip() and the regular expression; content that is
\* no string has no strip
PrdExtractStep ==
    /\ pc = "prd_responded"
    /\ IF response.present /\ response.ctype = "str"
       THEN /\ extracted' = PrdExtractOf[response.text]
            /\ pc' = "prd_extracted"
            /\ exc' = exc
       ELSE /\ exc' = [type |-> "AttributeError",
                       msg |-> <<IF response.present THEN response.ctype ELSE "NoneType",
                                 " object has no attribute ",
                                 IF response.present THEN "strip" ELSE "content">>]
            /\ pc' = "prd_except"
            /\ extracted' = extracted
    /\ UNCHANGED <<flow, args, request, response, content_dict, memory, result,
                   modelCalls, memWrites>>
    /\ UNCHANGED exVars

\* self.memory.add_user_memory(...) stores the record
PrdMemoryAdd ==
    /\ pc = "prd_extracted"
    /\ pc' = "prd_stored"
    /\ memory' = Append(memory, UserMemory(args.user_id, extracted))
    /\ memWrites' = memWrites + 1
    /\ UNCHANGED <<flow, args, request, response, extracted, content_dict, exc, result,
                   modelCalls>>
    /\ UNCHANGED exVars

\* self.memory.add_user_memory(...) raises
PrdMemoryAddRaises(e) ==
    /\ pc = "prd_extracted"
    /\ pc' = "prd_except"
    /\ exc' = e
    /\ memWrites' = memWrites + 1
    /\ UNCHANGED <<flow, args, request, response, extracted, content_dict, memory, result,
                   modelCalls>>
    /\ UNCHANGED exVars

\* return {"status": "success", ...}
PrdReturnSuccess ==
    /\ pc = "prd_stored"
    /\ pc' = "done"
    /\ result' = [NoResult EXCEPT !.kind = "returned",
                                  !.dict = [status |-> "success", content |-> extracted,
                                            project_name |-> args.name, error |-> <<>>]]
    /\ UNCHANGED <<flow, args, request, response, extracted, content_dict, exc, memory,
                   modelCalls, memWrites>>
    /\ UNCHANGED exVars

\* PrdReturnError raising the exception again
PrdReturnError_Reraise ==
    /\ pc = "prd_except"
    /\ pc' = "done"
    /\ result' = [NoResult EXCEPT !.kind = "raised", !.exc = exc]
    /\ UNCHANGED <<flow, args, request, response, extracted, content_dict, exc, memory,
                   modelCalls, memWrites>>
    /\ UNCHANGED exVars

\* PrdReturnError trying the model once more
PrdReturnError_Retry ==
    /\ pc = "prd_except"
    /\ pc' = "prd_built"
    /\ exc' = NoExc
    /\ response' = Pending
    /\ UNCHANGED <<flow, args, request, extracted, content_dict, memory, result,
                   modelCalls, memWrites>>
    /\ UNCHANGED exVars

\* except Exception as e: return {"status": "error", "error": str(e)}
PrdReturnError ==
    /\ pc = "prd_except"
    /\ pc' = "done"
    /\ result' = [NoResult EXCEPT !.kind = "returned",
                                  !.dict = [status |-> "error", content |-> <<>>,
                                            project_name |-> "", error |-> exc.msg]]
    /\ UNCHANGED <<flow, args, request, response, extracted, content_dict, exc, memory,
                   modelCalls, memWrites>>
    /\ UNCHANGED exVars

----------------------------------------------------------------------------
(* RepoContentGenerator.generate_content *)

RepoPrompt(repo_name, prd_content) ==
    <<"Please analyze this PRD and generate stakeholder-focused repository content for ",
      repo_name, "\n">> \o Fence \o <<"markdown", "\n">> \o prd_content \o <<"\n">> \o Fence

\* the call builds the prompt
RepoCall(repo_name, prd_content) ==
    /\ pc = "idle"
    /\ flow' = "repo"
    /\ pc' = "repo_built"
    /\ args' = [name |-> repo_name, user_id |-> None, document |-> prd_content]
    /\ request' = [prompt |-> RepoPrompt(repo_name, prd_content), user_id |-> None,
                   session_id |-> <<>>]
    /\ UNCHANGED <<response, extracted, content_dict, exc, memory, result,
                   modelCalls, memWrites>>
    /\ UNCHANGED exVars

\* self.agent.run(prompt) is invoked and blocks
RepoRun ==
    /\ pc = "repo_built"
    /\ pc' = "repo_awaiting"
    /\ modelCalls' = modelCalls + 1
    /\ UNCHANGED <<flow, args, request, response, extracted, content_dict, exc, memory,
                   result, memWrites>>
    /\ UNCHANGED exVars

\* the agent answers
RepoRunReturns ==
    /\ pc = "repo_awaiting"
    /\ pc' = "repo_responded"
    /\ \E r \in RepoResponses : response' = r
    /\ UNCHANGED <<flow, args, request, extracted, content_dict, exc, memory, result,
                   modelCalls, memWrites>>
    /\ UNCHANGED exVars

\* the agent raises, outside any try block: the exception leaves the call
RepoRunRaises(e) ==
    /\ pc = "repo_awaiting"
    /\ pc' = "done"
    /\ response' = Raised(e)
    /\ result' = [NoResult EXCEPT !.kind = "raised", !.exc = e]
    /\ UNCHANGED <<flow, args, request, extracted, content_dict, exc, memory,
                   modelCalls, memWrites>>
    /\ UNCHANGED exVars

\* if not response or not response.content: raise ValueError(...)
RepoCheckResponse ==
    /\ pc = "repo_responded"
    /\ IF Truthy(response)
       THEN /\ pc' = "repo_try"
            /\ result' = result
       ELSE /\ pc' = "done"
            /\ result' = [NoResult EXCEPT
                            !.kind = "raised",
                            !.exc = [type |-> "ValueError",
                                     msg |-> <<"Failed to generate repository content">>]]
    /\ UNCHANGED <<flow, args, request, response, extracted, content_dict, exc, memory,
                   modelCalls, memWrites>>
    /\ UNCHANGED exVars

\* the isinstance chain: a string is extracted from, a RepositoryContent is
\* returned as it is, anything else is an unexpected type
RepoDispatch ==
    /\ pc = "repo_try"
    /\ CASE response.ctype = "str" ->
              /\ extracted' = ExtractJsonOf[response.text]
              /\ pc' = "repo_extracted"
              /\ UNCHANGED <<exc, result>>
         [] response.ctype = "RepositoryContent" ->
              /\ result' = [NoResult EXCEPT !.kind = "returned", !.object = response.object]
              /\ pc' = "done"
              /\ UNCHANGED <<exc, extracted>>
         [] OTHER ->
              /\ exc' = [type |-> "ValueError",
                         msg |-> <<"Unexpected response type: ", response.ctype>>]
              /\ pc' = "repo_except"
              /\ UNCHANGED <<extracted, result>>
    /\ UNCHANGED <<flow, args, request, response, content_dict, memory,
                   modelCalls, memWrites>>
    /\ UNCHANGED exVars

\* content_dict = json.loads(json_content)
RepoJsonLoads ==
    /\ pc = "repo_extracted"
    /\ LET loaded == JsonLoads(extracted)
       IN  IF loaded.ok
           THEN /\ content_dict' = loaded.value
                /\ pc' = "repo_parsed"
                /\ exc' = exc
           ELSE /\ exc' = loaded.exc
                /\ pc' = "repo_except"
                /\ content_dict' = content_dict
    /\ UNCHANGED <<flow, args, request, response, extracted, memory, result,
                   modelCalls, memWrites>>
    /\ UNCHANGED exVars

\* return RepositoryContent(**content_dict)
RepoValidate ==
    /\ pc = "repo_parsed"
    /\ LET made == Validate(content_dict)
       IN  IF made.ok
           THEN /\ result' = [NoResult EXCEPT !.kind = "returned", !.object = made.object]
                /\ pc' = "done"
                /\ exc' = exc
           ELSE /\ exc' = made.exc
                /\ pc' = "repo_except"
                /\ result' = result
    /\ UNCHANGED <<flow, args, request, response, extracted, content_dict, memory,
                   modelCalls, memWrites>>
    /\ UNCHANGED exVars

\* except Exception as e: raise ValueError(f"Failed to parse agent response: {str(e)}")
RepoReraise ==
    /\ pc = "repo_except"
    /\ pc' = "done"
    /\ result' = [NoResult EXCEPT
                    !.kind = "raised",
                    !.exc = [type |-> "ValueError",
                             msg |-> <<"Failed to parse agent response: ">> \o exc.msg]]
    /\ UNCHANGED <<flow, args, request, response, extracted, content_dict, exc, memory,
                   modelCalls, memWrites>>
    /\ UNCHANGED exVars

----------------------------------------------------------------------------
(* The calls *)

\* the steps the method's own code takes
ProgramStep ==
    \/ PrdSend
    \/ PrdAwait
    \/ PrdExtractStep
    \/ PrdMemoryAdd
    \/ PrdReturnSuccess
    \/ PrdReturnError
    \/ RepoRun
    \/ RepoCheckResponse
    \/ RepoDispatch
    \/ RepoJsonLoads
    \/ RepoValidate
    \/ RepoReraise

\* the steps of the caller, the agent and the memory store
EnvironmentStep ==
    \/ \E d \in Documents, n \in ProjectNames, u \in UserIds : PrdCall(d, n, u)
    \/ PrdArunReturns
    \/ \E e \in ProviderErrors : PrdArunRaises(e)
    \/ \E e \in MemoryErrors : PrdMemoryAddRaises(e)
    \/ \E n \in RepoNames, d \in Documents : RepoCall(n, d)
    \/ RepoRunReturns
    \/ \E e \in ProviderErrors : RepoRunRaises(e)

Next == ProgramStep \/ EnvironmentStep

Spec == Init /\ [][Next]_vars

\* the method's own code keeps running: a step of it that stays possible is
\* taken
FairSpec == Spec /\ WF_vars(ProgramStep)

----------------------------------------------------------------------------
(* Extraction harness: a text is drawn and an extractor applied to it, and *)
(* then to its own result                                                  *)

Extract(fn, s) == IF fn = "json" THEN extract_json_from_response(s) ELSE PrdExtract(s)

ExtractInit ==
    /\ FlowIdle
    /\ ex_pc = "input"
    /\ ex_fn = "none"
    /\ ex_text \in ExtractTexts
    /\ ex_out = <<>>
    /\ ex_out2 = <<>>

ApplyJson ==
    /\ ex_pc = "input"
    /\ ex_pc' = "applied"
    /\ ex_fn' = "json"
    /\ ex_out' = extract_json_from_response(ex_text)
    /\ UNCHANGED <<ex_text, ex_out2>>
    /\ UNCHANGED flowVars

ApplyPrd ==
    /\ ex_pc = "input"
    /\ ex_pc' = "applied"
    /\ ex_fn' = "prd"
    /\ ex_out' = PrdExtract(ex_text)
    /\ UNCHANGED <<ex_text, ex_out2>>
    /\ UNCHANGED flowVars

Reapply ==
    /\ ex_pc = "applied"
    /\ ex_pc' = "reapplied"
    /\ ex_out2' = Extract(ex_fn, ex_out)
    /\ UNCHANGED <<ex_fn, ex_text, ex_out>>
    /\ UNCHANGED flowVars

ExtractNext == ApplyJson \/ ApplyPrd \/ Reapply

ExtractSpec == ExtractInit /\ [][ExtractNext]_vars

----------------------------------------------------------------------------
(* What the properties speak of, stated without the code's own operators   *)

\* the fences of a text, read left to right, none overlapping another
RECURSIVE FencePositions(_, _)
FencePositions(s, i) ==
    IF i + 2 > Len(s) THEN <<>>
    ELSE IF s[i] = Backtick /\ s[i + 1] = Backtick /\ s[i + 2] = Backtick
    THEN <<i>> \o FencePositions(s, i + 3)
    ELSE FencePositions(s, i + 1)

\* a fenced block is an opening fence and the next fence, which closes it
NumBlocks(s) == Len(FencePositions(s, 1)) \div 2

\* what stands between the fences of the last block
LastBlockBody(s) ==
    LET f == FencePositions(s, 1)
        n == NumBlocks(s)
    IN  SubSeq(s, f[2 * n - 1] + 3, f[2 * n] - 1)

\* every fence of s opens or closes a block, every block has a body, no
\* body and no text between blocks holds a backtick, and a fence is the
\* first or the last thing on its line
WellFenced(s) ==
    LET f == FencePositions(s, 1)
        inFence(k) == \E m \in 1..Len(f) : k \in f[m]..(f[m] + 2)
    IN  /\ Len(f) % 2 = 0
        /\ \A k \in 1..Len(s) : s[k] = Backtick => inFence(k)
        /\ \A m \in 1..Len(f) :
              IF m % 2 = 1
              THEN /\ f[m] = 1 \/ s[f[m] - 1] = "\n"
                   /\ f[m + 1] > f[m] + 3
              ELSE f[m] + 2 = Len(s) \/ s[f[m] + 3] = "\n"

\* a block's inner text: its body without the language tag, if it has one
Inner(body, tags) == IF body # <<>> /\ Head(body) \in tags THEN Tail(body) ELSE body

\* t is s without its leading and trailing white space
IsTrimOf(t, s) ==
    \E i \in 1..(Len(s) + 1) : \E j \in 0..Len(s) :
        /\ t = SubSeq(s, i, j)
        /\ \A k \in 1..(i - 1) : s[k] \in {" ", "\n"}
        /\ \A k \in (j + 1)..Len(s) : s[k] \in {" ", "\n"}
        /\ t # <<>> => (t[1] \notin {" ", "\n"} /\ t[Len(t)] \notin {" ", "\n"})

\* s is one JSON document, white space around it allowed
IsJsonDocument(s) == \E d \in JsonDocs : IsTrimOf(<<d>>, s)

\* s is a JSON object that lacks description or readme_content
LacksRequiredField(s) ==
    \E d \in {"{d1}", "{r1}"} : IsTrimOf(<<d>>, s)

\* the response is missing or its content is missing or empty
EmptyResponse(r) ==
    r.kind = "returned" /\ (~r.present \/ r.ctype = "None" \/ (r.ctype = "str" /\ r.text = <<>>))

\* the call raised a ValueError with a message
RaisedValueError ==
    result.kind = "raised" /\ result.exc.type = "ValueError" /\ result.exc.msg # <<>>

\* the order of the code positions along a call
Rank(p) ==
    CASE p = "idle" -> 0
      [] p \in {"prd_built", "repo_built"} -> 1
      [] p = "prd_sent" -> 2
      [] p \in {"prd_awaiting", "repo_awaiting"} -> 3
      [] p \in {"prd_responded", "repo_responded"} -> 4
      [] p = "repo_try" -> 5
      [] p \in {"prd_extracted", "repo_extracted"} -> 6
      [] p \in {"prd_stored", "repo_parsed"} -> 7
      [] p \in {"prd_except", "repo_except"} -> 8
      [] OTHER -> 9

\* the stage of the pipeline a code position belongs to
Phase(p) ==
    CASE Rank(p) = 0 -> "NotStarted"
      [] Rank(p) = 1 -> "Built"
      [] Rank(p) = 2 -> "Sent"
      [] Rank(p) \in 3..5 -> "AwaitingResponse"
      [] Rank(p) = 6 -> "Extracted"
      [] Rank(p) = 7 -> "Validated"
      [] Rank(p) = 8 -> "Failed"
      [] OTHER -> "Reported"

PhaseOrder(ph) ==
    CASE ph = "NotStarted" -> 0
      [] ph = "Built" -> 1
      [] ph = "Sent" -> 2
      [] ph = "AwaitingResponse" -> 3
      [] ph = "Extracted" -> 4
      [] ph \in {"Validated", "Failed"} -> 5
      [] OTHER -> 6

----------------------------------------------------------------------------
(* Properties *)

C3_PrdReturnsLastBlock ==
    (/\ flow = "prd"
     /\ pc = "done"
     /\ result.dict.status = "success"
     /\ NumBlocks(response.text) > 1
     /\ WellFenced(response.text))
    => IsTrimOf(result.dict.content, Inner(LastBlockBody(response.text), {"markdown"}))

\* C4 as stated: for a text with one or more fenced blocks, each opening
\* fence with an optional tag json or markdown, extract_json_from_response
\* returns the trimmed inner text of the last block.
C4_LastBlockAnyTag ==
    (/\ ex_fn = "json"
     /\ ex_pc \in {"applied", "reapplied"}
     /\ NumBlocks(ex_text) >= 1)
    => IsTrimOf(ex_out, Inner(LastBlockBody(ex_text), {"json", "markdown"}))

\* C4, amended: for a text with one or more fenced blocks, each opening
\* fence with an optional tag json, extract_json_from_response returns the
\* trimmed inner text of the last block; any other word after the opening
\* fence, markdown included, is part of the inner text.
C4_LastBlockJsonTag ==
    (/\ ex_fn = "json"
     /\ ex_pc \in {"applied", "reapplied"}
     /\ NumBlocks(ex_text) >= 1)
    => IsTrimOf(ex_out, Inner(LastBlockBody(ex_text), {"json"}))

C4_Witness ==
    /\ ex_fn = "json"
    /\ ex_pc = "applied"
    /\ NumBlocks(ex_text) >= 1
    /\ LastBlockBody(ex_text) # <<>>
    /\ Head(LastBlockBody(ex_text)) = "json"
    /\ ex_out = <<"x">>
    /\ Len(ex_text) > Len(LastBlockBody(ex_text)) + 6

\* C5: generate_content returns no RepositoryContent whose description is
\* longer than 160 characters.
C5_DescriptionAtMost160 ==
    (flow = "repo" /\ result.kind = "returned")
    => Len(result.object.description.s) <= MaxDescription

\* C6: when the model answers generate_prd with an empty or white-space-only
\* text, the result is the error variant and no memory record is written.
C6_EmptyContentIsError ==
    (/\ flow = "prd"
     /\ pc = "done"
     /\ response.kind = "returned"
     /\ response.present
     /\ response.ctype = "str"
     /\ IsTrimOf(<<>>, response.text))
    => (result.dict.status = "error" /\ memory = <<>>)

\* C7: generate_content raises a ValueError with a message when the response
\* is missing or empty, when the extracted text is no JSON, and when the
\* parsed object lacks a required field; it returns a RepositoryContent only
\* when none of these is the case.
C7_FailFast ==
    (flow = "repo" /\ pc = "done") =>
        /\ EmptyResponse(response) => RaisedValueError
        /\ (response.kind = "returned" /\ ~EmptyResponse(response) /\ response.ctype = "str") =>
              /\ ~IsJsonDocument(extracted) => RaisedValueError
              /\ LacksRequiredField(extracted) => RaisedValueError
        /\ result.kind = "returned" =>
              /\ ~EmptyResponse(response)
              /\ response.ctype = "str" =>
                    (IsJsonDocument(extracted) /\ ~LacksRequiredField(extracted))

C7_Witness ==
    /\ flow = "repo"
    /\ pc = "done"
    /\ LacksRequiredField(extracted)
    /\ exc.type = "ValidationError"
    /\ RaisedValueError

\* C8: a call runs straight through its stages: every step moves it to a
\* later code position, so no stage is entered again; the model is invoked
\* exactly once, and at most once in all; the memory write happens at most
\* once, and never in generate_content; and once the model invocation has
\* completed or failed, the call ends with a returned value or a raised
\* error.
C8_LinearNoRetry ==
    /\ [][/\ Rank(pc') > Rank(pc)
          /\ PhaseOrder(Phase(pc')) >= PhaseOrder(Phase(pc))]_vars
    /\ [](/\ modelCalls <= 1
          /\ memWrites <= 1
          /\ Rank(pc) >= 2 => modelCalls = 1
          /\ flow = "repo" => memWrites = 0
          /\ pc = "done" => result.kind # "none")
    /\ (response.kind # "pending") ~> (pc = "done" /\ result.kind # "none")

C8_Witness ==
    /\ flow = "prd"
    /\ pc = "done"
    /\ modelCalls = 1
    /\ memWrites = 1
    /\ result.dict.status = "success"

\* C9 as stated: every RepositoryContent generate_content returns has a
\* non-empty description and a non-empty readme_content.
C9_FieldsNonEmpty ==
    (flow = "repo" /\ result.kind = "returned")
    => (result.object.description.s # <<>> /\ result.object.readme_content.s # <<>>)

\* C9, amended: every RepositoryContent generate_content returns has a
\* description and a readme_content that are both strings; either may be
\* the empty string.
C9_FieldsAreStrings ==
    (flow = "repo" /\ result.kind = "returned")
    => (result.object.description.t = "str" /\ result.object.readme_content.t = "str")

C9_Witness ==
    /\ flow = "repo"
    /\ result.kind = "returned"
    /\ response.ctype = "str"
    /\ content_dict.description = FieldStr(<<>>)
    /\ result.object.description.s = <<>>

\* C10: on a text without a fenced block both extractors return the text
\* without its leading and trailing white space, and applying the extractor
\* to that result returns it unchanged.
C10_ZeroFenceIdempotent ==
    (ex_pc \in {"applied", "reapplied"} /\ NumBlocks(ex_text) = 0) =>
        /\ IsTrimOf(ex_out, ex_text)
        /\ ex_pc = "reapplied" => ex_out2 = ex_out

C10_Witness ==
    /\ ex_pc = "reapplied"
    /\ ex_fn = "prd"
    /\ NumBlocks(ex_text) = 0
    /\ FencePositions(ex_text, 1) # <<>>
    /\ ex_out # ex_text
    /\ ex_out # <<>>
    /\ ex_out2 = ex_out

====
